---- MODULE Spec2Model ----
(***************************************************************************)
(* Model of the two repository-hygiene checkers of the marketplace:        *)
(*   scripts/validate-plugin-schema.py     (class PluginValidator)         *)
(*   scripts/validate-marketplace-sync.py  (class MarketplaceSyncValidator)*)
(* The repository tree is chosen in Init and never modified; a run of      *)
(* either program is a sequence of steps over that tree.                   *)
(***************************************************************************)
EXTENDS Integers, Sequences, FiniteSets, TLC

(***************************************************************************)
(* Bounds of the model.                                                    *)
(***************************************************************************)
MaxPlugins == 2
MaxSkills == 2
MaxHooks == 2
MaxKeywords == 2
MaxMentions == 2
MaxChanged == 2

(***************************************************************************)
(* Text.  A string that the code inspects character by character (plugin   *)
(* directory names, documentation tokens) is a tuple of characters; Ord is *)
(* the code point Python's str comparison uses.                            *)
(***************************************************************************)
Ord ==
    (" " :> 32) @@ ("-" :> 45) @@ ("1" :> 49) @@ ("@" :> 64) @@
    ("B" :> 66) @@ ("F" :> 70) @@ ("O" :> 79) @@
    ("a" :> 97) @@ ("b" :> 98) @@ ("f" :> 102) @@ ("m" :> 109) @@
    ("o" :> 111) @@ ("q" :> 113) @@ ("r" :> 114) @@ ("u" :> 117) @@
    ("x" :> 120) @@ ("y" :> 121) @@ ("z" :> 122)

foo == <<"f", "o", "o">>
bar == <<"b", "a", "r">>
baz == <<"b", "a", "z">>
qux == <<"q", "u", "x">>
NamePool == <<foo, bar, baz, qux>>
PluginNames == {NamePool[i] : i \in 1..MaxPlugins}

RECURSIVE StrLess(_, _)
StrLess(a, b) ==
    IF a = <<>> THEN b # <<>>
    ELSE IF b = <<>> THEN FALSE
    ELSE IF Ord[Head(a)] # Ord[Head(b)] THEN Ord[Head(a)] < Ord[Head(b)]
    ELSE StrLess(Tail(a), Tail(b))

Perms(S) ==
    {p \in [1..Cardinality(S) -> S] : \A i, j \in DOMAIN p : i # j => p[i] # p[j]}

\* sorted(S) for a set of character strings
\* variant: descending order
Sorted_Desc(S) ==
    CHOOSE p \in Perms(S) : \A i, j \in DOMAIN p : i < j => StrLess(p[j], p[i])

Sorted(S) ==
    CHOOSE p \in Perms(S) : \A i, j \in DOMAIN p : i < j => StrLess(p[i], p[j])

(***************************************************************************)
(* JSON values as json.load returns them.                                  *)
(***************************************************************************)
Str(s) == [t |-> "string", v |-> s]
Num == [t |-> "number", v |-> "1"]
Null == [t |-> "null", v |-> ""]
Arr(items) == [t |-> "array", v |-> items]
Obj(f) == [t |-> "object", v |-> f]

IsStr(x) == x.t = "string"
\* isinstance(x, str) and x
NonEmptyStr(x) == x.t = "string" /\ x.v # ""
Has(data, k) == k \in DOMAIN data.v

\* the report entries: "[tag] <kind> <arg>"
Msg(tag, kind, arg) == [tag |-> tag, kind |-> kind, arg |-> arg]
NoTag == <<>>

PLUGIN_JSON_REQUIRED_FIELDS == <<"name", "version", "description">>

SelectSeqIn(s, S) == SelectSeq(s, LAMBDA x : x \in S)

\* `field not in data` for the value json.load returned
\*   dict: key lookup; list: element equality; str: substring (for the
\*   strings of ManifestNonObjects, none longer than a field name, the field
\*   is a substring exactly when it is the string); anything else raises
\*   TypeError
InRaises(data) == data.t \notin {"object", "array", "string"}
FieldIn(field, data) ==
    CASE data.t = "object" -> field \in DOMAIN data.v
      [] data.t = "array" -> \E i \in DOMAIN data.v : data.v[i] = Str(field)
      [] data.t = "string" -> data.v = field
      [] OTHER -> FALSE

MissingFields(data) ==
    SelectSeqIn(PLUGIN_JSON_REQUIRED_FIELDS,
                {f \in {"name", "version", "description"} : ~FieldIn(f, data)})

\* one field check of validate_plugin_json: 'if "f" in data: if not
\* isinstance(data["f"], str) or not data["f"]: errors.append(...)'
NonEmptyStringField(data, plugin_name, f) ==
    IF Has(data, f) /\ ~NonEmptyStr(data.v[f])
    THEN <<Msg(plugin_name, "must be a non-empty string", <<f>>)>>
    ELSE <<>>

RequiredFieldErrors(data, plugin_name) ==
    LET chk(f) == IF ~NonEmptyStr(data.v[f])
                  THEN <<Msg(plugin_name, "must be a non-empty string", <<f>>)>>
                  ELSE <<>>
    IN chk("name") \o chk("version") \o chk("description")

\* variant: a bad name does not end the checks of the author object
validate_author_field_CollectAll(author, plugin_name) ==
    IF author.t # "object"
    THEN <<Msg(plugin_name, "must be an object", <<"author">>)>>
    ELSE (IF ~Has(author, "name")
          THEN <<Msg(plugin_name, "must have a 'name' field", <<"author">>)>>
          ELSE IF ~NonEmptyStr(author.v["name"])
          THEN <<Msg(plugin_name, "must be a non-empty string", <<"author.name">>)>>
          ELSE <<>>)
         \o
         (IF Has(author, "email") /\ ~NonEmptyStr(author.v["email"])
          THEN <<Msg(plugin_name, "must be a non-empty string", <<"author.email">>)>>
          ELSE <<>>)
         \o
         (IF Has(author, "url") /\ ~NonEmptyStr(author.v["url"])
          THEN <<Msg(plugin_name, "must be a non-empty string", <<"author.url">>)>>
          ELSE <<>>)

validate_author_field(author, plugin_name) ==
    IF author.t # "object"
    THEN <<Msg(plugin_name, "must be an object", <<"author">>)>>
    ELSE IF ~Has(author, "name")
    THEN <<Msg(plugin_name, "must have a 'name' field", <<"author">>)>>
    ELSE IF ~NonEmptyStr(author.v["name"])
    THEN <<Msg(plugin_name, "must be a non-empty string", <<"author.name">>)>>
    ELSE (IF Has(author, "email") /\ ~NonEmptyStr(author.v["email"])
          THEN <<Msg(plugin_name, "must be a non-empty string", <<"author.email">>)>>
          ELSE <<>>)
         \o
         (IF Has(author, "url") /\ ~NonEmptyStr(author.v["url"])
          THEN <<Msg(plugin_name, "must be a non-empty string", <<"author.url">>)>>
          ELSE <<>>)

AuthorErrors(data, plugin_name) ==
    IF Has(data, "author") THEN validate_author_field(data.v["author"], plugin_name)
    ELSE <<>>

AllStrings(arr) == \A i \in DOMAIN arr.v : IsStr(arr.v[i])

\* variant: one entry per element that is not a string
KeywordsErrors_PerElement(data, plugin_name) ==
    IF ~Has(data, "keywords") THEN <<>>
    ELSE IF data.v["keywords"].t # "array"
    THEN <<Msg(plugin_name, "must be an array", <<"keywords">>)>>
    ELSE [i \in 1..Len(SelectSeq(data.v["keywords"].v, LAMBDA k : ~IsStr(k))) |->
            Msg(plugin_name, "must contain only strings", <<"keywords">>)]

KeywordsErrors(data, plugin_name) ==
    IF ~Has(data, "keywords") THEN <<>>
    ELSE IF data.v["keywords"].t # "array"
    THEN <<Msg(plugin_name, "must be an array", <<"keywords">>)>>
    ELSE IF ~AllStrings(data.v["keywords"])
    THEN <<Msg(plugin_name, "must contain only strings", <<"keywords">>)>>
    ELSE <<>>

CommandsErrors(data, plugin_name) ==
    IF ~Has(data, "commands") THEN <<>>
    ELSE IF data.v["commands"].t \notin {"array", "string"}
    THEN <<Msg(plugin_name, "must be a string or array", <<"commands">>)>>
    ELSE IF data.v["commands"].t = "array" /\ ~AllStrings(data.v["commands"])
    THEN <<Msg(plugin_name, "array must contain only strings", <<"commands">>)>>
    ELSE <<>>

\* the body of validate_plugin_json once the three required keys are present
\* in a dict: every check runs, every failing check appends its own error
ManifestFieldErrors(data, plugin_name) ==
    RequiredFieldErrors(data, plugin_name)
    \o AuthorErrors(data, plugin_name)
    \o NonEmptyStringField(data, plugin_name, "homepage")
    \o NonEmptyStringField(data, plugin_name, "repository")
    \o NonEmptyStringField(data, plugin_name, "license")
    \o KeywordsErrors(data, plugin_name)
    \o CommandsErrors(data, plugin_name)
    \o NonEmptyStringField(data, plugin_name, "agents")
    \o NonEmptyStringField(data, plugin_name, "hooks")
    \o NonEmptyStringField(data, plugin_name, "mcpServers")

\* variant: one entry per absent key
MissingFieldsErrors_PerField(data, plugin_name) ==
    [i \in 1..Len(MissingFields(data)) |->
        Msg(plugin_name, "missing required fields", <<MissingFields(data)[i]>>)]

\* the errors appended for the absent required keys: one aggregated entry
\* naming all of them, after which validate_plugin_json returns False
MissingFieldsErrors(data, plugin_name) ==
    IF MissingFields(data) # <<>>
    THEN <<Msg(plugin_name, "missing required fields", MissingFields(data))>>
    ELSE <<>>

\* validate_plugin_json: the errors it appends and the value it returns.
\* file.st: "malformed" (json.load raises JSONDecodeError), "unreadable"
\* (open/read raises another exception), "parsed" (file.data is the value)
validate_plugin_json(file, plugin_name) ==
    IF file.st = "malformed"
    THEN [errs |-> <<Msg(plugin_name, "Invalid JSON in", <<"plugin.json">>)>>, ok |-> FALSE]
    ELSE IF file.st = "unreadable" \/ InRaises(file.data)
    THEN [errs |-> <<Msg(plugin_name, "Error reading", <<"plugin.json">>)>>, ok |-> FALSE]
    ELSE IF MissingFieldsErrors(file.data, plugin_name) # <<>>
    THEN [errs |-> MissingFieldsErrors(file.data, plugin_name), ok |-> FALSE]
    ELSE IF file.data.t # "object"
    THEN \* data.get raises AttributeError, caught by `except Exception`
         [errs |-> <<Msg(plugin_name, "Error reading", <<"plugin.json">>)>>, ok |-> FALSE]
    ELSE [errs |-> ManifestFieldErrors(file.data, plugin_name),
          ok |-> ManifestFieldErrors(file.data, plugin_name) = <<>>]

(***************************************************************************)
(* The checks of one plugin directory.  A plugin directory is              *)
(*   [isdir, manifest, commands, agents, skills, hooks, mcp]               *)
(* manifest : [st, data]            .claude-plugin/plugin.json             *)
(* commands, agents : "absent" | "empty" (no *.md file) | "md"             *)
(* skills : [exists, dirs]          dirs[d] = d contains SKILL.md          *)
(* hooks  : [exists, files]         files[f] = "ok" | "bad" for each *.json*)
(* mcp    : "absent" | "ok" | "bad" | "unreadable"      .mcp.json          *)
(***************************************************************************)
Ret(errs, warns, ok) == [errs |-> errs, warns |-> warns, ok |-> ok]

validate_markdown_files(kind, dir_name, plugin_name) ==
    IF kind = "empty"
    THEN Ret(<<>>, <<Msg(plugin_name, "directory exists but contains no .md files", <<dir_name>>)>>, TRUE)
    ELSE Ret(<<>>, <<>>, TRUE)

\* variant: the loop stops at the first subdirectory without SKILL.md
validate_skills_FirstOnly(skills, order, plugin_name) ==
    IF DOMAIN skills.dirs = {}
    THEN Ret(<<>>, <<Msg(plugin_name, "skills/ directory exists but contains no skill directories", <<>>)>>, TRUE)
    ELSE LET missing == SelectSeq(order, LAMBDA d : ~skills.dirs[d])
         IN Ret(<<>>,
                IF missing = <<>> THEN <<>>
                ELSE <<Msg(plugin_name, "missing SKILL.md", <<missing[1]>>)>>,
                TRUE)

\* order: the sequence in which skills_dir.iterdir() yields the subdirectories
validate_skills(skills, order, plugin_name) ==
    IF DOMAIN skills.dirs = {}
    THEN Ret(<<>>, <<Msg(plugin_name, "skills/ directory exists but contains no skill directories", <<>>)>>, TRUE)
    ELSE Ret(<<>>,
             [i \in 1..Len(SelectSeq(order, LAMBDA d : ~skills.dirs[d])) |->
                 Msg(plugin_name, "missing SKILL.md",
                     <<SelectSeq(order, LAMBDA d : ~skills.dirs[d])[i]>>)],
             TRUE)

\* order: the sequence in which dir_path.glob("*.json") yields the files
validate_json_files(hooks, order, plugin_name) ==
    IF DOMAIN hooks.files = {}
    THEN Ret(<<>>, <<Msg(plugin_name, "directory exists but contains no .json files", <<"hooks">>)>>, TRUE)
    ELSE LET bad == SelectSeq(order, LAMBDA f : hooks.files[f] = "bad")
         IN Ret([i \in 1..Len(bad) |-> Msg(plugin_name, "Invalid JSON in", <<bad[i]>>)],
                <<>>, bad = <<>>)

\* variant: a read failure also makes the plugin invalid
validate_mcp_json_ReadFails(mcp, plugin_name) ==
    CASE mcp = "bad" -> Ret(<<Msg(plugin_name, "Invalid JSON in", <<".mcp.json">>)>>, <<>>, FALSE)
      [] mcp = "unreadable" -> Ret(<<>>, <<Msg(plugin_name, "Error reading", <<".mcp.json">>)>>, FALSE)
      [] OTHER -> Ret(<<>>, <<>>, TRUE)

validate_mcp_json(mcp, plugin_name) ==
    CASE mcp = "bad" -> Ret(<<Msg(plugin_name, "Invalid JSON in", <<".mcp.json">>)>>, <<>>, FALSE)
      [] mcp = "unreadable" -> Ret(<<>>, <<Msg(plugin_name, "Error reading", <<".mcp.json">>)>>, TRUE)
      [] OTHER -> Ret(<<>>, <<>>, TRUE)

\* variant: a missing manifest is reported twice
RequiredFilesCheck_Twice(entry, plugin_name) ==
    IF entry.manifest.st = "absent"
    THEN Ret(<<Msg(plugin_name, "Missing required file", <<".claude-plugin/plugin.json">>),
               Msg(plugin_name, "Missing required file", <<".claude-plugin/plugin.json">>)>>,
             <<>>, FALSE)
    ELSE Ret(validate_plugin_json(entry.manifest, plugin_name).errs, <<>>,
             validate_plugin_json(entry.manifest, plugin_name).ok)

\* the REQUIRED_FILES loop of validate_plugin
RequiredFilesCheck(entry, plugin_name) ==
    IF entry.manifest.st = "absent"
    THEN Ret(<<Msg(plugin_name, "Missing required file", <<".claude-plugin/plugin.json">>)>>, <<>>, FALSE)
    ELSE Ret(validate_plugin_json(entry.manifest, plugin_name).errs, <<>>,
             validate_plugin_json(entry.manifest, plugin_name).ok)

\* the OPTIONAL_DIRS loop of validate_plugin: commands, agents, skills, hooks
OptionalDirsCheck(entry, skill_order, hook_order, plugin_name) ==
    LET c == IF entry.commands # "absent"
             THEN validate_markdown_files(entry.commands, "commands", plugin_name)
             ELSE Ret(<<>>, <<>>, TRUE)
        a == IF entry.agents # "absent"
             THEN validate_markdown_files(entry.agents, "agents", plugin_name)
             ELSE Ret(<<>>, <<>>, TRUE)
        s == IF entry.skills.exists
             THEN validate_skills(entry.skills, skill_order, plugin_name)
             ELSE Ret(<<>>, <<>>, TRUE)
        h == IF entry.hooks.exists
             THEN validate_json_files(entry.hooks, hook_order, plugin_name)
             ELSE Ret(<<>>, <<>>, TRUE)
    IN Ret(c.errs \o a.errs \o s.errs \o h.errs,
           c.warns \o a.warns \o s.warns \o h.warns,
           c.ok /\ a.ok /\ s.ok /\ h.ok)

\* the OPTIONAL_FILES loop of validate_plugin: only .mcp.json is inspected
OptionalFilesCheck(entry, plugin_name) ==
    IF entry.mcp # "absent" THEN validate_mcp_json(entry.mcp, plugin_name)
    ELSE Ret(<<>>, <<>>, TRUE)

\* variant: a missing manifest ends the checks of the plugin
validate_plugin_SkipOnMissing(entry, skill_order, hook_order, plugin_name) ==
    IF entry.manifest.st = "absent"
    THEN RequiredFilesCheck(entry, plugin_name)
    ELSE LET r == RequiredFilesCheck(entry, plugin_name)
             d == OptionalDirsCheck(entry, skill_order, hook_order, plugin_name)
             f == OptionalFilesCheck(entry, plugin_name)
         IN Ret(r.errs \o d.errs \o f.errs,
                r.warns \o d.warns \o f.warns,
                r.ok /\ d.ok /\ f.ok)

\* validate_plugin: what it appends to errors and warnings, and plugin_valid
validate_plugin(entry, skill_order, hook_order, plugin_name) ==
    LET r == RequiredFilesCheck(entry, plugin_name)
        d == OptionalDirsCheck(entry, skill_order, hook_order, plugin_name)
        f == OptionalFilesCheck(entry, plugin_name)
    IN Ret(r.errs \o d.errs \o f.errs,
           r.warns \o d.warns \o f.warns,
           r.ok /\ d.ok /\ f.ok)

(***************************************************************************)
(* The repository trees the runs are checked on.                           *)
(***************************************************************************)
SeqsUpTo(S, n) == UNION {[1..k -> S] : k \in 0..n}

Absent == [t |-> "absent", v |-> ""]
Kinds4 == {Absent, Str("x"), Str(""), Num}
\* the JSON object holding the keys that choice does not leave out
MkObj(choice) ==
    Obj([k \in {k \in DOMAIN choice : choice[k] # Absent} |-> choice[k]])

ValidRequired == [k \in {"name", "version", "description"} |-> Str("x")]
ArrayValues == {Arr(s) : s \in SeqsUpTo({Str("x"), Str(""), Num}, MaxKeywords)}
AuthorValues ==
    {Num, Str("x")} \cup {MkObj(c) : c \in [{"name", "email", "url"} -> Kinds4]}

ManifestObjects ==
    {MkObj(r @@ ("keywords" :> k)) :
        r \in [{"name", "version", "description"} -> Kinds4],
        k \in {Absent, Num, Str("x")} \cup ArrayValues}
    \cup {MkObj(ValidRequired @@ ("author" :> a)) : a \in AuthorValues}
    \cup {MkObj(ValidRequired @@ o) :
            o \in [{"homepage", "repository", "license", "agents", "hooks", "mcpServers"} -> Kinds4]}
    \cup {MkObj(ValidRequired @@ ("commands" :> c)) : c \in {Num, Str("x"), Str("")} \cup ArrayValues}

ManifestNonObjects ==
    {Num, Null, Str("x"), Str("name"), Arr(<<>>), Arr(<<Str("name")>>),
     Arr(<<Str("name"), Str("version"), Str("description")>>)}

File(st, data) == [st |-> st, data |-> data]
NoManifest == File("absent", Null)
MinimalManifest == File("parsed", MkObj(ValidRequired))
ManifestFiles ==
    {NoManifest, File("malformed", Null), File("unreadable", Null)}
    \cup {File("parsed", d) : d \in ManifestObjects \cup ManifestNonObjects}

SkillPool == <<"alpha", "beta", "gamma">>
HookPool == <<"hooks.json", "extra.json", "more.json">>
SkillDirNames == {SkillPool[i] : i \in 1..MaxSkills}
HookFileNames == {HookPool[i] : i \in 1..MaxHooks}
NoDir == [exists |-> FALSE, dirs |-> <<>>]
NoHooks == [exists |-> FALSE, files |-> <<>>]
SkillsShapes ==
    {NoDir} \cup {[exists |-> TRUE, dirs |-> d] :
                    d \in UNION {[S -> BOOLEAN] : S \in SUBSET SkillDirNames}}
HooksShapes ==
    {NoHooks} \cup {[exists |-> TRUE, files |-> f] :
                    f \in UNION {[S -> {"ok", "bad"}] : S \in SUBSET HookFileNames}}

Entry(isdir, m, c, a, s, h, mcp) ==
    [isdir |-> isdir, manifest |-> m, commands |-> c, agents |-> a,
     skills |-> s, hooks |-> h, mcp |-> mcp]
Bare(m) == Entry(TRUE, m, "absent", "absent", NoDir, NoHooks, "absent")
PlainFile == Entry(FALSE, NoManifest, "absent", "absent", NoDir, NoHooks, "absent")

\* one plugin directory, every manifest, no optional substructure
ManifestEntries == {Bare(m) : m \in ManifestFiles}
AllMissing == [exists |-> TRUE, dirs |-> [d \in SkillDirNames |-> FALSE]]
AllBad == [exists |-> TRUE, files |-> [f \in HookFileNames |-> "bad"]]
\* one plugin directory, every skills/ or every hooks/ directory next to the
\* other optional substructure
StructureEntries ==
    {Entry(TRUE, m, c, a, sh[1], sh[2], mcp) :
        m \in {NoManifest, MinimalManifest},
        c \in {"absent", "empty", "md"}, a \in {"absent", "empty"},
        sh \in (SkillsShapes \X {NoHooks, AllBad}) \cup ({NoDir, AllMissing} \X HooksShapes),
        mcp \in {"absent", "ok", "bad", "unreadable"}}
\* the entries several plugin directories are combined from
SampleEntries ==
    {PlainFile, Bare(NoManifest), Bare(MinimalManifest), Bare(File("malformed", Null)),
     Bare(File("parsed", MkObj([name |-> Str("x"), version |-> Str("")]))),
     Entry(TRUE, MinimalManifest, "empty", "md",
           [exists |-> TRUE, dirs |-> (SkillPool[1] :> FALSE)], NoHooks, "unreadable"),
     Entry(TRUE, MinimalManifest, "absent", "absent", NoDir,
           [exists |-> TRUE, files |-> (HookPool[1] :> "bad")], "ok"),
     Entry(TRUE, NoManifest, "md", "empty", [exists |-> TRUE, dirs |-> <<>>],
           [exists |-> TRUE, files |-> (HookPool[1] :> "bad")], "bad")}

NoDoc == [exists |-> FALSE, lines |-> {}, headings |-> {}]
Tree(pe, entries, readme, plugins_md) ==
    [plugins_exists |-> pe, entries |-> entries, readme |-> readme, plugins_md |-> plugins_md]
LocalEnv == [gha |-> FALSE, git |-> "ok", changed |-> <<>>]

SchemaTrees ==
    {Tree(TRUE, (foo :> e), NoDoc, NoDoc) : e \in ManifestEntries \cup StructureEntries}
    \cup {Tree(TRUE, es, NoDoc, NoDoc) :
            es \in UNION {[S -> SampleEntries] : S \in SUBSET PluginNames}}
    \cup {Tree(FALSE, <<>>, NoDoc, NoDoc)}

(***************************************************************************)
(* validate-marketplace-sync.py: the pure parts.                           *)
(* A documentation file is [exists, lines, headings]: the set of its lines *)
(* that mention a text and the headings it has.  A line mentions its text  *)
(* in one of the shapes the three patterns look for:                       *)
(*   "install"  /plugin install <text>                                     *)
(*   "at"       <text>@marketplace                                         *)
(*   "bold"     **<text>** - ...                                           *)
(*   "plain"    <text> in running prose                                    *)
(* A report entry of this program is [kind, names].                        *)
(***************************************************************************)
SMsg(kind, names) == [kind |-> kind, names |-> names]

LowerSeq == <<"a", "b", "c", "d", "e", "f", "g", "h", "i", "j", "k", "l", "m",
              "n", "o", "p", "q", "r", "s", "t", "u", "v", "w", "x", "y", "z">>
UpperSeq == <<"A", "B", "C", "D", "E", "F", "G", "H", "I", "J", "K", "L", "M",
              "N", "O", "P", "Q", "R", "S", "T", "U", "V", "W", "X", "Y", "Z">>
Lowers == {LowerSeq[i] : i \in DOMAIN LowerSeq}
Uppers == {UpperSeq[i] : i \in DOMAIN UpperSeq}
Digits == {"0", "1", "2", "3", "4", "5", "6", "7", "8", "9"}

\* str.lower() and str.replace(' ', '-') on one character
LowerChar(c) ==
    IF c \in Uppers THEN LowerSeq[CHOOSE i \in DOMAIN UpperSeq : UpperSeq[i] = c] ELSE c
KebabChar(c) == IF c = " " THEN "-" ELSE c

\* [a-z0-9-] compiled with re.IGNORECASE
NameClass == Lowers \cup Uppers \cup Digits \cup {"-"}
\* [A-Za-z0-9 -]
BoldClass == Lowers \cup Uppers \cup Digits \cup {" ", "-"}

RECURSIVE LongestPrefix(_, _)
LongestPrefix(text, class) ==
    IF text = <<>> \/ Head(text) \notin class THEN <<>>
    ELSE <<Head(text)>> \o LongestPrefix(Tail(text), class)

RECURSIVE LongestSuffix(_, _)
LongestSuffix(text, class) ==
    IF text = <<>> \/ text[Len(text)] \notin class THEN <<>>
    ELSE Append(LongestSuffix(SubSeq(text, 1, Len(text) - 1), class), text[Len(text)])

\* re.findall(r'/plugin install ([a-z0-9-]+)', content, re.IGNORECASE)
InstallPattern(line) ==
    IF line.kind = "install" /\ LongestPrefix(line.text, NameClass) # <<>>
    THEN {LongestPrefix(line.text, NameClass)} ELSE {}

\* re.findall(r'([a-z0-9-]+)@', content, re.IGNORECASE)
AtPattern(line) ==
    IF line.kind = "at" /\ LongestSuffix(line.text, NameClass) # <<>>
    THEN {LongestSuffix(line.text, NameClass)} ELSE {}

\* re.findall(r'\*\*([A-Za-z0-9 -]+)\*\*\s*-', content), then
\* name.lower().replace(' ', '-')
BoldPattern(line) ==
    IF line.kind = "bold" /\ line.text # <<>>
       /\ \A i \in DOMAIN line.text : line.text[i] \in BoldClass
    THEN {[i \in DOMAIN line.text |-> KebabChar(LowerChar(line.text[i]))]} ELSE {}

false_positives ==
    {<<"c", "l", "a", "u", "d", "e", "-", "c", "o", "d", "e", "-",
       "m", "a", "r", "k", "e", "t", "p", "l", "a", "c", "e">>,
     <<"m", "a", "r", "k", "e", "t", "p", "l", "a", "c", "e">>,
     <<"y", "o", "u", "r", "-", "o", "r", "g">>,
     <<"t", "e", "s", "t">>,
     <<"m", "y", "-", "f", "i", "r", "s", "t", "-", "p", "l", "u", "g", "i", "n">>,
     <<"m", "y", "-", "p", "l", "u", "g", "i", "n">>,
     <<"d", "e", "v", "-", "m", "a", "r", "k", "e", "t", "p", "l", "a", "c", "e">>,
     <<"p", "l", "u", "g", "i", "n", "-", "n", "a", "m", "e">>}

extract_plugin_names_from_markdown(doc) ==
    (UNION {InstallPattern(l) \cup AtPattern(l) \cup BoldPattern(l) : l \in doc.lines})
    \ false_positives

\* `"# Plugins" in content` and `"## Quickstart" in content`: substring tests
\* on the headings the document has
\* variant: only a heading line that is exactly "# Plugins" counts
HasCatalogHeading_TopLevel(doc) == "# Plugins" \in doc.headings

HasCatalogHeading(doc) == doc.headings \cap {"# Plugins", "## Plugins"} # {}
HasQuickstartHeading(doc) == doc.headings \cap {"## Quickstart", "### Quickstart"} # {}

\* variant: a manifest without "name" is rejected as well
CannotRead_NeedsName(file) ==
    file.st \in {"malformed", "unreadable"} \/ file.data.t # "object"
    \/ ~Has(file.data, "name")

\* json.load or plugin_data.get raises in get_plugin_list
CannotRead(file) == file.st \in {"malformed", "unreadable"} \/ file.data.t # "object"

\* get_plugin_list on the entries of plugins/ in the order iterdir() yields
\* them: the keys of the dict returned and the warnings appended
RECURSIVE get_plugin_list(_, _)
get_plugin_list(t, order) ==
    IF ~t.plugins_exists \/ order = <<>> THEN [plugins |-> {}, warns |-> <<>>]
    ELSE LET d == Head(order)
             e == t.entries[d]
             rest == get_plugin_list(t, Tail(order))
         IN IF ~e.isdir \/ e.manifest.st = "absent" THEN rest
            ELSE IF CannotRead(e.manifest)
            THEN [plugins |-> rest.plugins,
                  warns |-> <<SMsg("Could not read plugin.json for", <<d>>)>> \o rest.warns]
            ELSE [plugins |-> rest.plugins \cup {d}, warns |-> rest.warns]

\* variant: the difference taken the other way round
MissingIn_Reversed(migrated, doc) == extract_plugin_names_from_markdown(doc) \ migrated

\* the check of one documentation text against the plugin list
MissingIn(migrated, doc) == migrated \ extract_plugin_names_from_markdown(doc)
DocWarnings(migrated, doc, file_name) ==
    IF MissingIn(migrated, doc) # {}
    THEN <<SMsg(file_name, Sorted(MissingIn(migrated, doc)))>>
    ELSE <<>>

ReadmeCheck(migrated, readme) ==
    IF readme.exists
    THEN Ret(<<>>, DocWarnings(migrated, readme, "README.md may be missing these plugins"),
             MissingIn(migrated, readme) = {})
    ELSE Ret(<<>>, <<SMsg("README.md not found", <<>>)>>, TRUE)

PluginsMdChecked(doc) ==
    doc.exists /\ HasCatalogHeading(doc) /\ ~HasQuickstartHeading(doc)

PluginsMdCheck(migrated, plugins_md) ==
    IF PluginsMdChecked(plugins_md)
    THEN Ret(<<>>, DocWarnings(migrated, plugins_md, "plugins.md may be missing these plugins"),
             MissingIn(migrated, plugins_md) = {})
    ELSE Ret(<<>>, <<>>, TRUE)

\* validate_marketplace_sync: the plugin list, what is appended, the result
validate_marketplace_sync(t, order) ==
    LET l == get_plugin_list(t, order)
        r == ReadmeCheck(l.plugins, t.readme)
        p == PluginsMdCheck(l.plugins, t.plugins_md)
    IN IF l.plugins = {}
       THEN [plugins |-> {}, errs |-> <<>>, warns |-> l.warns, ok |-> TRUE]
       ELSE [plugins |-> l.plugins, errs |-> r.errs \o p.errs,
             warns |-> l.warns \o r.warns \o p.warns, ok |-> r.ok /\ p.ok]

\* A path of the changed-file list is the tuple of its components.
EmptyPath == <<>>
README_md == <<"README.md">>
plugins_md_path == <<"plugins.md">>
\* result.stdout.strip().split('\n'): no output gives ['']
SplitLines(stdout) == IF stdout = <<>> THEN <<EmptyPath>> ELSE stdout
\* f.startswith('plugins/')
StartsWithPlugins(f) == Len(f) >= 2 /\ f[1] = "plugins"
plugin_changes(changed_files) == SelectSeq(changed_files, StartsWithPlugins)
\* variant: both documentation files must have changed
marketplace_updated_Both(changed_files) ==
    \A m \in {<<"README.md">>, <<"plugins.md">>} :
        \E i \in DOMAIN changed_files : changed_files[i] = m

marketplace_updated(changed_files) ==
    \E i \in DOMAIN changed_files : changed_files[i] \in {README_md, plugins_md_path}

\* variant: a failing git is reported as an error
validate_on_pr_GitFails(e) ==
    IF ~e.gha THEN Ret(<<>>, <<>>, TRUE)
    ELSE IF e.git # "ok"
    THEN Ret(<<SMsg("Could not get changed files", <<>>)>>, <<>>, FALSE)
    ELSE IF SelectSeq(e.changed, LAMBDA f : Len(f) >= 2 /\ f[1] = "plugins") = <<>>
    THEN Ret(<<>>, <<>>, TRUE)
    ELSE IF ~\E i \in DOMAIN e.changed : e.changed[i] \in {<<"README.md">>, <<"plugins.md">>}
    THEN Ret(<<SMsg("Plugin files were modified but marketplace files were not updated", <<>>)>>,
             <<>>, FALSE)
    ELSE Ret(<<>>, <<>>, TRUE)

\* validate_on_pr: what it appends to errors and the value it returns
validate_on_pr(e) ==
    IF ~e.gha THEN Ret(<<>>, <<>>, TRUE)
    ELSE IF e.git # "ok" THEN Ret(<<>>, <<>>, TRUE)
    ELSE IF plugin_changes(SplitLines(e.changed)) = <<>> THEN Ret(<<>>, <<>>, TRUE)
    ELSE IF ~marketplace_updated(SplitLines(e.changed))
    THEN Ret(<<SMsg("Plugin files were modified but marketplace files were not updated", <<>>)>>,
             <<>>, FALSE)
    ELSE Ret(<<>>, <<>>, TRUE)

Foo == <<"F", "o", "o">>
test == <<"t", "e", "s", "t">>
Texts == {foo, bar, Foo}
Lines ==
    [kind : {"install", "at", "bold", "plain"}, text : Texts]
    \cup {[kind |-> "install", text |-> test]}
LineSets == {S \in SUBSET Lines : Cardinality(S) <= MaxMentions}
HeadingPool == {"# Plugins", "## Plugins", "## Quickstart", "### Quickstart"}
Doc(lines, headings) == [exists |-> TRUE, lines |-> lines, headings |-> headings]
Docs == {Doc(l, {}) : l \in LineSets}
Catalogs == {Doc(l, h) : l \in LineSets, h \in SUBSET HeadingPool}

SyncEntries ==
    {Bare(NoManifest), Bare(MinimalManifest), Bare(File("malformed", Null)),
     Bare(File("parsed", Arr(<<>>))), Bare(File("parsed", MkObj([version |-> Num])))}

Paths ==
    {EmptyPath, README_md, plugins_md_path, <<"plugins">>,
     <<"plugins", "foo", "commands", "x.md">>,
     <<"plugins", "bar", ".claude-plugin", "plugin.json">>,
     <<"docs", "README.md">>, <<"scripts", "plugins", "x.py">>}
\* git prints no empty line between names
ChangedLists == SeqsUpTo(Paths \ {EmptyPath}, MaxChanged)
Envs == [gha : BOOLEAN, git : {"ok", "nonzero", "exception"}, changed : ChangedLists]

\* the plugin list against README.md
ReadmeTrees ==
    {Tree(TRUE, es, r, NoDoc) :
        es \in UNION {[S -> SyncEntries] : S \in SUBSET PluginNames},
        r \in {NoDoc} \cup Docs}
\* the plugin list against plugins.md
CatalogTrees ==
    {Tree(TRUE, es, r, c) :
        es \in UNION {[S -> {Bare(MinimalManifest)}] : S \in SUBSET PluginNames},
        r \in {NoDoc, Doc({[kind |-> "install", text |-> foo]}, {})},
        c \in Catalogs}
\* the trees the changed-file lists are combined with
DiffTrees ==
    {Tree(TRUE, es, r, NoDoc) :
        es \in {<<>>, (foo :> Bare(MinimalManifest)), (foo :> PlainFile)},
        r \in {NoDoc, Doc({}, {}), Doc({[kind |-> "install", text |-> foo]}, {})}}
    \cup {Tree(FALSE, <<>>, r, NoDoc) : r \in {NoDoc, Doc({}, {})}}

(***************************************************************************)
(* State.                                                                  *)
(***************************************************************************)
VARIABLES
    tree,               \* the repository tree (read-only)
    env,                \* GITHUB_ACTIONS and what `git diff` answers
    pc,                 \* position of the running program
    run,                \* 1 in the first run of the schema validator, 2 in the second
    prev_report,        \* errors and warnings of the first run
    errors,             \* PluginValidator.errors
    warnings,           \* PluginValidator.warnings
    validated_plugins,  \* PluginValidator.validated_plugins
    queue,              \* sorted(plugin_dirs) not yet visited
    all_valid,          \* local of validate_all_plugins
    result,             \* value validate_all_plugins returned
    plugins,            \* keys of the dict get_plugin_list returned
    s_errors,           \* MarketplaceSyncValidator.errors
    s_warnings,         \* MarketplaceSyncValidator.warnings
    sync_valid,         \* value validate_marketplace_sync returned
    pr_valid,           \* value validate_on_pr returned
    exit_status         \* argument of sys.exit

vars == <<tree, env, pc, run, prev_report, errors, warnings, validated_plugins,
          queue, all_valid, result, plugins, s_errors, s_warnings, sync_valid,
          pr_valid, exit_status>>

schemaVars == <<errors, warnings, validated_plugins, queue, all_valid, result>>
syncVars == <<plugins, s_errors, s_warnings, sync_valid, pr_valid>>

NoReport == [errors |-> <<>>, warnings |-> <<>>]

\* a validator freshly constructed, nothing run yet
Fresh ==
    /\ run = 1
    /\ prev_report = NoReport
    /\ errors = <<>>
    /\ warnings = <<>>
    /\ validated_plugins = {}
    /\ queue = <<>>
    /\ all_valid = TRUE
    /\ result = TRUE
    /\ plugins = {}
    /\ s_errors = <<>>
    /\ s_warnings = <<>>
    /\ sync_valid = TRUE
    /\ pr_valid = TRUE
    /\ exit_status = -1

\* pc = "init": validate-plugin-schema.py is started;
\* pc = "sync_init": validate-marketplace-sync.py is started
Init ==
    /\ \/ tree \in SchemaTrees /\ env = LocalEnv /\ pc = "init"
       \/ tree \in ReadmeTrees \cup CatalogTrees /\ env = LocalEnv /\ pc = "sync_init"
       \/ tree \in DiffTrees /\ env \in Envs /\ pc = "sync_init"
    /\ Fresh

(***************************************************************************)
(* validate-plugin-schema.py                                               *)
(***************************************************************************)
PluginDirs(t) == {d \in DOMAIN t.entries : t.entries[d].isdir}

\* validate_all_plugins up to the loop
ValidateAllPluginsBegin ==
    /\ pc \in {"init", "rerun"}
    /\ IF ~tree.plugins_exists
       THEN /\ errors' = Append(errors, Msg(NoTag, "Plugins directory not found", <<>>))
            /\ result' = FALSE
            /\ pc' = "summary"
            /\ UNCHANGED <<warnings, queue, all_valid>>
       ELSE IF PluginDirs(tree) = {}
       THEN /\ warnings' = Append(warnings, Msg(NoTag, "No plugin directories found", <<>>))
            /\ result' = TRUE
            /\ pc' = "summary"
            /\ UNCHANGED <<errors, queue, all_valid>>
       ELSE /\ queue' = Sorted(PluginDirs(tree))
            /\ all_valid' = TRUE
            /\ pc' = "loop"
            /\ UNCHANGED <<errors, warnings, result>>
    /\ UNCHANGED <<tree, env, run, prev_report, validated_plugins, exit_status>>
    /\ UNCHANGED syncVars

\* one iteration of `for plugin_dir in sorted(plugin_dirs)`
ValidatePlugin ==
    /\ pc = "loop"
    /\ queue # <<>>
    /\ LET d == Head(queue)
           e == tree.entries[d]
       IN \E so \in Perms(DOMAIN e.skills.dirs), ho \in Perms(DOMAIN e.hooks.files) :
            LET r == validate_plugin(e, so, ho, d)
            IN /\ errors' = errors \o r.errs
               /\ warnings' = warnings \o r.warns
               /\ validated_plugins' =
                     IF r.ok THEN validated_plugins \cup {d} ELSE validated_plugins
               /\ all_valid' = (all_valid /\ r.ok)
    /\ queue' = Tail(queue)
    /\ UNCHANGED <<tree, env, pc, run, prev_report, result, exit_status>>
    /\ UNCHANGED syncVars

\* `return all_valid`
ValidateAllPluginsEnd ==
    /\ pc = "loop"
    /\ queue = <<>>
    /\ result' = all_valid
    /\ pc' = "summary"
    /\ UNCHANGED <<tree, env, run, prev_report, errors, warnings, validated_plugins,
                   queue, all_valid, exit_status>>
    /\ UNCHANGED syncVars

SchemaExitStatus(errs) == IF errs # <<>> THEN 1 ELSE 0

\* main after validate_all_plugins: print_summary, sys.exit
SchemaExit ==
    /\ pc = "summary"
    /\ exit_status' = SchemaExitStatus(errors)
    /\ pc' = "exited"
    /\ UNCHANGED <<tree, env, run, prev_report>>
    /\ UNCHANGED schemaVars
    /\ UNCHANGED syncVars

\* the schema validator is started a second time on the same tree: a new
\* process, a new PluginValidator
Rerun ==
    /\ pc = "exited"
    /\ run = 1
    /\ run' = run + 1
    /\ prev_report' = [errors |-> errors, warnings |-> warnings]
    /\ pc' = "rerun"
    /\ errors' = <<>>
    /\ warnings' = <<>>
    /\ validated_plugins' = {}
    /\ queue' = <<>>
    /\ all_valid' = TRUE
    /\ result' = TRUE
    /\ exit_status' = -1
    /\ UNCHANGED <<tree, env>>
    /\ UNCHANGED syncVars

(***************************************************************************)
(* validate-marketplace-sync.py                                            *)
(***************************************************************************)
\* main: sync_valid = validator.validate_marketplace_sync()
ValidateMarketplaceSync ==
    /\ pc = "sync_init"
    /\ \E order \in Perms(DOMAIN tree.entries) :
         LET r == validate_marketplace_sync(tree, order)
         IN /\ plugins' = r.plugins
            /\ s_errors' = s_errors \o r.errs
            /\ s_warnings' = s_warnings \o r.warns
            /\ sync_valid' = r.ok
    /\ pc' = "sync_pr"
    /\ UNCHANGED <<tree, env, run, prev_report, pr_valid, exit_status>>
    /\ UNCHANGED schemaVars

\* main: pr_valid = validator.validate_on_pr()
ValidateOnPr ==
    /\ pc = "sync_pr"
    /\ LET r == validate_on_pr(env)
       IN /\ s_errors' = s_errors \o r.errs
          /\ s_warnings' = s_warnings \o r.warns
          /\ pr_valid' = r.ok
    /\ pc' = "sync_summary"
    /\ UNCHANGED <<tree, env, run, prev_report, plugins, sync_valid, exit_status>>
    /\ UNCHANGED schemaVars

\* variant: a failed sync check fails the build
SyncExitStatus_Strict(errs, sv, pv) == IF errs # <<>> \/ ~sv THEN 1 ELSE 0

SyncExitStatus(errs, sv, pv) == IF errs # <<>> THEN 1 ELSE 0

\* main: print_summary, sys.exit
SyncExit ==
    /\ pc = "sync_summary"
    /\ exit_status' = SyncExitStatus(s_errors, sync_valid, pr_valid)
    /\ pc' = "sync_exited"
    /\ UNCHANGED <<tree, env, run, prev_report>>
    /\ UNCHANGED schemaVars
    /\ UNCHANGED syncVars

Next ==
    \/ ValidateAllPluginsBegin
    \/ ValidatePlugin
    \/ ValidateAllPluginsEnd
    \/ SchemaExit
    \/ Rerun
    \/ ValidateMarketplaceSync
    \/ ValidateOnPr
    \/ SyncExit

Spec == Init /\ [][Next]_vars

(***************************************************************************)
(* Properties.                                                             *)
(***************************************************************************)
Range(f) == {f[i] : i \in DOMAIN f}
Count(seq, P(_)) == Len(SelectSeq(seq, P))
RequiredFields == {"name", "version", "description"}

\* d has been visited by validate_plugin in the current run
Processed(d) ==
    /\ pc \in {"loop", "summary", "exited"}
    /\ d \in PluginDirs(tree)
    /\ d \notin Range(queue)
ManifestOf(d) == tree.entries[d].manifest
ParsedObject(d) == ManifestOf(d).st = "parsed" /\ ManifestOf(d).data.t = "object"
ErrorsOf(d) == SelectSeq(errors, LAMBDA m : m.tag = d)
\* the errors of d that validate_plugin_json appended for a parsed manifest
ManifestErrorsOf(d) ==
    SelectSeq(errors, LAMBDA m : m.tag = d /\ m.kind \notin
                  {"Invalid JSON in", "Missing required file", "Error reading"})
\* the errors of d that are about the required field f
AboutField(d, f) ==
    SelectSeq(errors, LAMBDA m :
        /\ m.tag = d
        /\ \/ m.kind = "missing required fields" /\ f \in Range(m.arg)
           \/ m.kind = "must be a non-empty string" /\ m.arg = <<f>>)
\* the errors of d that are about required fields
RequiredErrorsOf(d) ==
    SelectSeq(errors, LAMBDA m :
        /\ m.tag = d
        /\ \/ m.kind = "missing required fields"
           \/ m.kind = "must be a non-empty string" /\ m.arg[1] \in RequiredFields)
AbsentFields(data) == {f \in RequiredFields : f \notin DOMAIN data.v}
IllTypedFields(data) ==
    {f \in RequiredFields : f \in DOMAIN data.v /\ ~(data.v[f].t = "string" /\ data.v[f].v # "")}
\* the required fields of a manifest that parsed as JSON which are absent or
\* not a non-empty string; a value that is no object has none of the fields
OffendingFields(file) ==
    IF file.data.t = "object"
    THEN AbsentFields(file.data) \cup IllTypedFields(file.data)
    ELSE RequiredFields

C2_MissingManifest ==
    \A d \in PluginNames :
        /\ (Processed(d) /\ ManifestOf(d).st = "absent") =>
              /\ Count(errors, LAMBDA m : m.tag = d /\ m.kind = "Missing required file") = 1
              /\ d \notin validated_plugins
        /\ (/\ pc \in {"sync_pr", "sync_summary", "sync_exited"}
            /\ d \in PluginDirs(tree)
            /\ ManifestOf(d).st = "absent") =>
              /\ d \notin plugins
              /\ \A i \in DOMAIN s_warnings : d \notin Range(s_warnings[i].names)
              /\ \A i \in DOMAIN s_errors : d \notin Range(s_errors[i].names)

C2_Witness ==
    /\ pc = "exited"
    /\ foo \in PluginDirs(tree)
    /\ ManifestOf(foo).st = "absent"
    /\ tree.entries[foo].hooks.exists
    /\ Len(ErrorsOf(foo)) > 1
    /\ foo \notin validated_plugins

\* the changed-file list is obtained: GITHUB_ACTIONS is set and git succeeds
DiffMode == env.gha /\ env.git = "ok"
PluginFileChanged ==
    \E i \in DOMAIN env.changed : Len(env.changed[i]) >= 2 /\ env.changed[i][1] = "plugins"
DocFileChanged ==
    \E i \in DOMAIN env.changed : env.changed[i] \in {<<"README.md">>, <<"plugins.md">>}

\* C3: in CI-diff mode exactly one error is appended when a changed path is
\* under plugins/ and neither README.md nor plugins.md is in the list, and no
\* error otherwise, whatever the documentation comparison found.
C3_DiffModeError ==
    (pc \in {"sync_summary", "sync_exited"} /\ DiffMode) =>
        /\ Len(s_errors) = IF PluginFileChanged /\ ~DocFileChanged THEN 1 ELSE 0
        /\ pr_valid = (s_errors = <<>>)

\* a plugin file changed without documentation while the comparison warned
C3_Witness ==
    /\ pc = "sync_exited"
    /\ DiffMode
    /\ PluginFileChanged
    /\ <<"docs", "README.md">> \in Range(env.changed)
    /\ Len(s_errors) = 1
    /\ ~sync_valid

\* C4: when the changed-file list cannot be obtained (git exits non-zero or
\* running it raises), validate_on_pr returns True and appends no error, and
\* the exit status is 0.
C4_DiffFailureIsSuccess ==
    (pc \in {"sync_summary", "sync_exited"} /\ env.gha /\ env.git # "ok") =>
        /\ pr_valid
        /\ s_errors = <<>>
        /\ (pc = "sync_exited" => exit_status = 0)

C4_Witness ==
    /\ pc = "sync_exited"
    /\ env.gha
    /\ env.git = "exception"
    /\ PluginFileChanged
    /\ ~DocFileChanged
    /\ exit_status = 0

SyncDone == pc \in {"sync_pr", "sync_summary", "sync_exited"}
WarningsOfKind(kind) == SelectSeq(s_warnings, LAMBDA m : m.kind = kind)
\* one documentation text was compared: at most one warning of the kind, it
\* lists the plugins that the text does not mention, each once
Compared(doc, kind) ==
    LET diff == plugins \ extract_plugin_names_from_markdown(doc)
        w == WarningsOfKind(kind)
    IN /\ Len(w) = IF diff # {} THEN 1 ELSE 0
       /\ diff # {} => (Range(w[1].names) = diff /\ Len(w[1].names) = Cardinality(diff))

\* C5: for each documentation text that exists and is checked, a non-empty
\* difference (plugin list minus names extracted from the text) gives exactly
\* one warning listing exactly the names of the difference, an empty
\* difference gives no warning, and no error is appended.
C5_DocDifference ==
    (pc = "sync_pr" /\ plugins # {}) =>
        /\ tree.readme.exists => Compared(tree.readme, "README.md may be missing these plugins")
        /\ ( /\ tree.plugins_md.exists
             /\ tree.plugins_md.headings \cap {"# Plugins", "## Plugins"} # {}
             /\ tree.plugins_md.headings \cap {"## Quickstart", "### Quickstart"} = {} ) =>
               Compared(tree.plugins_md, "plugins.md may be missing these plugins")
        /\ s_errors = <<>>

\* foo and bar have manifests, README.md installs foo only: bar is reported
C5_Witness ==
    /\ pc = "sync_pr"
    /\ plugins = {foo, bar}
    /\ tree.readme.lines = {[kind |-> "install", text |-> foo]}
    /\ s_warnings = <<SMsg("README.md may be missing these plugins", <<bar>>)>>

HasManifest(d) == d \in PluginDirs(tree) /\ ManifestOf(d).st # "absent"

\* C6 as stated: the plugin list is the set of plugin directories that
\* contain a manifest file, whatever the file holds.
C6_PresenceOnly ==
    SyncDone => plugins = {d \in PluginNames : HasManifest(d)}

\* C6 amended: the plugin list is the set of plugin directories whose
\* manifest exists and is read as a JSON object, whether or not the object
\* has valid name, version and description; a directory whose plugin.json is
\* malformed, unreadable or not a JSON object is left out, gets exactly one
\* 'Could not read plugin.json' warning and is named in no other warning.
C6_ReadableObjects ==
    SyncDone =>
        /\ plugins = {d \in PluginNames : HasManifest(d) /\ ParsedObject(d)}
        /\ \A d \in PluginNames :
             (HasManifest(d) /\ ~ParsedObject(d)) =>
                /\ Count(s_warnings, LAMBDA m : d \in Range(m.names)) = 1
                /\ Count(s_warnings, LAMBDA m :
                        m.kind = "Could not read plugin.json for" /\ m.names = <<d>>) = 1

\* a manifest without name is listed, a malformed one is not
C6_Witness ==
    /\ SyncDone
    /\ PluginDirs(tree) = {foo, bar}
    /\ ManifestOf(foo).st = "malformed"
    /\ ParsedObject(bar) /\ "name" \notin DOMAIN ManifestOf(bar).data.v
    /\ plugins = {bar}
    /\ tree.readme.exists

\* C7: either program exits non-zero exactly when its errors list is
\* non-empty at the end of the run; warnings, and a False result of
\* validate_marketplace_sync, leave the exit status 0.
C7_ExitStatus ==
    /\ pc = "exited" => (exit_status # 0) = (errors # <<>>)
    /\ pc = "sync_exited" => (exit_status # 0) = (s_errors # <<>>)
    /\ pc \in {"exited", "sync_exited"} => exit_status \in {0, 1}

C7_Witness ==
    /\ pc = "sync_exited"
    /\ ~sync_valid
    /\ s_warnings # <<>>
    /\ s_errors = <<>>
    /\ exit_status = 0

\* C8: when validate_all_plugins has returned, a plugin directory is in
\* validated_plugins exactly when no error tagged with its name was appended,
\* the result is True exactly when errors is empty, and a plugins root
\* without plugin directories gives one warning, no error and True.
C8_ValidIffNoErrors ==
    pc \in {"summary", "exited"} =>
        /\ \A d \in PluginDirs(tree) : (d \in validated_plugins) = (ErrorsOf(d) = <<>>)
        /\ validated_plugins \subseteq PluginDirs(tree)
        /\ result = (errors = <<>>)
        /\ (tree.plugins_exists /\ PluginDirs(tree) = {}) =>
              /\ warnings = <<Msg(NoTag, "No plugin directories found", <<>>)>>
              /\ errors = <<>>
              /\ result

\* one plugin valid with warnings only, the other invalid
C8_Witness ==
    /\ pc = "summary"
    /\ PluginDirs(tree) = {foo, bar}
    /\ validated_plugins = {foo}
    /\ \E i \in DOMAIN warnings : warnings[i].tag = foo /\ warnings[i].kind = "Error reading"
    /\ ErrorsOf(bar) # <<>>
    /\ ~result

\* C9: the second run of the schema validator on the unmodified tree ends
\* with the same errors and warnings lists as the first, element for element,
\* whatever order the directory entries are enumerated in.
C9_SameReport ==
    (run = 2 /\ pc = "exited") =>
        /\ errors = prev_report.errors
        /\ warnings = prev_report.warnings

KeywordsOf(d) == ManifestOf(d).data.v["keywords"]
KeywordsErrorsOf(d) ==
    SelectSeq(errors, LAMBDA m : m.tag = d /\ m.arg = <<"keywords">>)

\* C10: with name, version and description valid, a keywords array holding at
\* least one element that is not a string gives exactly one error about
\* keywords and an invalid plugin; an array of strings only, the empty array
\* included, gives no error about keywords.
C10_Keywords ==
    \A d \in PluginNames :
        ( /\ Processed(d) /\ ParsedObject(d)
          /\ OffendingFields(ManifestOf(d)) = {}
          /\ "keywords" \in DOMAIN ManifestOf(d).data.v
          /\ KeywordsOf(d).t = "array" ) =>
            IF \E i \in DOMAIN KeywordsOf(d).v : KeywordsOf(d).v[i].t # "string"
            THEN /\ Len(KeywordsErrorsOf(d)) = 1
                 /\ KeywordsErrorsOf(d)[1].kind = "must contain only strings"
                 /\ d \notin validated_plugins
            ELSE KeywordsErrorsOf(d) = <<>>

\* two elements that are not strings, one error
C10_Witness ==
    /\ pc = "exited"
    /\ foo \in PluginDirs(tree)
    /\ ParsedObject(foo)
    /\ OffendingFields(ManifestOf(foo)) = {}
    /\ "keywords" \in DOMAIN ManifestOf(foo).data.v
    /\ KeywordsOf(foo) = Arr(<<Num, Num>>)
    /\ Len(errors) = 1
    /\ foo \notin validated_plugins

WarningsOf(d) == SelectSeq(warnings, LAMBDA m : m.tag = d)
SkillsOf(d) == tree.entries[d].skills
HooksOf(d) == tree.entries[d].hooks
B2N(b) == IF b THEN 1 ELSE 0
\* the warnings a skills/ directory calls for: one when it has no
\* subdirectory, else one per subdirectory without SKILL.md
SkillWarningsDue(sk) ==
    IF ~sk.exists THEN 0
    ELSE IF DOMAIN sk.dirs = {} THEN 1
    ELSE Cardinality({x \in DOMAIN sk.dirs : ~sk.dirs[x]})

\* C11: for a skills/ directory, validate_skills appends exactly one warning
\* per immediate subdirectory without SKILL.md, naming it, exactly one
\* warning when there is no subdirectory, no error, and the plugin stays
\* valid.
C11_SkillsWarnings ==
    \A d \in PluginNames :
        (Processed(d) /\ SkillsOf(d).exists) =>
            /\ \A x \in DOMAIN SkillsOf(d).dirs :
                 Count(warnings, LAMBDA m :
                     m.tag = d /\ m.kind = "missing SKILL.md" /\ m.arg = <<x>>)
                 = B2N(~SkillsOf(d).dirs[x])
            /\ Count(warnings, LAMBDA m : m.tag = d /\ m.kind = "missing SKILL.md")
                 = Cardinality({x \in DOMAIN SkillsOf(d).dirs : ~SkillsOf(d).dirs[x]})
            /\ Count(warnings, LAMBDA m : m.tag = d /\ m.kind =
                     "skills/ directory exists but contains no skill directories")
                 = B2N(DOMAIN SkillsOf(d).dirs = {})
            /\ ( /\ ManifestOf(d) = MinimalManifest
                 /\ ~HooksOf(d).exists
                 /\ tree.entries[d].mcp # "bad" ) =>
                    (ErrorsOf(d) = <<>> /\ d \in validated_plugins)

\* two subdirectories, neither with SKILL.md: two warnings, a valid plugin
C11_Witness ==
    /\ pc = "exited"
    /\ foo \in PluginDirs(tree)
    /\ DOMAIN SkillsOf(foo).dirs = {"alpha", "beta"}
    /\ \A x \in {"alpha", "beta"} : ~SkillsOf(foo).dirs[x]
    /\ Count(warnings, LAMBDA m : m.kind = "missing SKILL.md") = 2
    /\ foo \in validated_plugins

MissingManifestError(m) == m.kind = "Missing required file"

\* C12 as stated: for a plugin directory without the manifest, nothing but the
\* single 'Missing required file' error is appended, whatever commands/,
\* agents/, skills/, hooks/ and .mcp.json contain.
C12_SkipsStructure ==
    \A d \in PluginNames :
        (Processed(d) /\ ManifestOf(d).st = "absent") =>
            /\ Len(ErrorsOf(d)) = 1
            /\ MissingManifestError(ErrorsOf(d)[1])
            /\ WarningsOf(d) = <<>>

\* C12 amended: for a plugin directory without the manifest the 'Missing
\* required file' error comes first and only the manifest checks are skipped;
\* commands/, agents/, skills/, hooks/ and .mcp.json are checked as for any
\* plugin: one error per malformed hooks/*.json and one for a malformed
\* .mcp.json, one warning per empty commands/ or agents/, the skills/
\* warnings, one for a hooks/ without *.json, one for an unreadable .mcp.json.
C12_StructureStillChecked ==
    \A d \in PluginNames :
        (Processed(d) /\ ManifestOf(d).st = "absent") =>
            LET e == tree.entries[d]
            IN /\ MissingManifestError(ErrorsOf(d)[1])
               /\ Len(ErrorsOf(d)) =
                     1 + Cardinality({f \in DOMAIN e.hooks.files : e.hooks.files[f] = "bad"})
                       + B2N(e.mcp = "bad")
               /\ Len(WarningsOf(d)) =
                     B2N(e.commands = "empty") + B2N(e.agents = "empty")
                     + SkillWarningsDue(e.skills)
                     + B2N(e.hooks.exists /\ DOMAIN e.hooks.files = {})
                     + B2N(e.mcp = "unreadable")

\* no manifest, an empty commands/ and two malformed hook files
C12_Witness ==
    /\ pc = "exited"
    /\ foo \in PluginDirs(tree)
    /\ ManifestOf(foo).st = "absent"
    /\ tree.entries[foo].commands = "empty"
    /\ Len(ErrorsOf(foo)) = 3
    /\ WarningsOf(foo) # <<>>

HasAuthor(d) == "author" \in DOMAIN ManifestOf(d).data.v
AuthorOf(d) == ManifestOf(d).data.v["author"]
AuthorErrorsOf(d) ==
    SelectSeq(errors, LAMBDA m :
        m.tag = d /\ m.arg[1] \in {"author", "author.name", "author.email", "author.url"})
\* key k of the object is present but not a non-empty string
BadValue(obj, k) ==
    k \in DOMAIN obj.v /\ ~(obj.v[k].t = "string" /\ obj.v[k].v # "")
BadAuthorName(author) == "name" \notin DOMAIN author.v \/ BadValue(author, "name")
\* the violations of the author rules
AuthorViolations(author) ==
    IF author.t # "object" THEN 1
    ELSE B2N(BadAuthorName(author)) + B2N(BadValue(author, "email"))
         + B2N(BadValue(author, "url"))
\* the manifest of d is an object with name, version and description present
AuthorChecked(d) ==
    Processed(d) /\ ParsedObject(d) /\ AbsentFields(ManifestOf(d).data) = {}

PluginsMdWarnings == WarningsOfKind("plugins.md may be missing these plugins")
PluginsMdDiff == plugins \ extract_plugin_names_from_markdown(tree.plugins_md)
\* the text of plugins.md contains the characters "## Quickstart"
ContainsQuickstart == tree.plugins_md.headings \cap {"## Quickstart", "### Quickstart"} # {}
\* the text of plugins.md contains the characters "# Plugins"
ContainsPlugins == tree.plugins_md.headings \cap {"# Plugins", "## Plugins"} # {}
\* the migrated plugins were compared with plugins.md under the condition cond:
\* a warning lists the plugins it does not mention exactly when cond holds and
\* there are such plugins, and the result is then False
PluginsMdComparedIff(cond) ==
    /\ Len(PluginsMdWarnings) = IF cond /\ PluginsMdDiff # {} THEN 1 ELSE 0
    /\ (cond /\ PluginsMdDiff # {}) => Range(PluginsMdWarnings[1].names) = PluginsMdDiff
    /\ (cond /\ PluginsMdDiff # {}) => ~sync_valid

\* C14 as stated: plugins.md is compared with the migrated plugins iff there
\* is a migrated plugin, the file exists, it has a top-level "# Plugins"
\* heading and its text does not contain "## Quickstart"; otherwise no
\* "plugins.md may be missing" warning is appended.
C14_TopLevelHeading ==
    pc = "sync_pr" =>
        PluginsMdComparedIff(/\ plugins # {}
                             /\ tree.plugins_md.exists
                             /\ "# Plugins" \in tree.plugins_md.headings
                             /\ ~ContainsQuickstart)

\* C14 amended: plugins.md is compared iff there is a migrated plugin, the
\* file exists, its text contains the characters "# Plugins" anywhere (a
\* "## Plugins" heading included) and does not contain "## Quickstart";
\* otherwise no "plugins.md may be missing" warning is appended.
C14_SubstringTest ==
    pc = "sync_pr" =>
        PluginsMdComparedIff(/\ plugins # {}
                             /\ tree.plugins_md.exists
                             /\ ContainsPlugins
                             /\ ~ContainsQuickstart)

\* plugins.md has only a "## Plugins" heading and mentions no plugin: compared
C14_Witness ==
    /\ pc = "sync_pr"
    /\ plugins = {foo}
    /\ tree.plugins_md.exists
    /\ tree.plugins_md.headings = {"## Plugins"}
    /\ tree.plugins_md.lines = {}
    /\ PluginsMdWarnings = <<SMsg("plugins.md may be missing these plugins", <<foo>>)>>

\* the documentation texts extract_plugin_names_from_markdown was applied to
ExtractedDocs ==
    IF pc = "sync_pr" /\ plugins # {}
    THEN (IF tree.readme.exists THEN {tree.readme} ELSE {})
         \cup (IF PluginsMdChecked(tree.plugins_md) THEN {tree.plugins_md} ELSE {})
    ELSE {}
LowercaseToken(tok) ==
    \A i \in DOMAIN tok : tok[i] \in Lowers \cup Digits \cup {"-"}

\* C15: every token extract_plugin_names_from_markdown returns consists only
\* of lowercase letters, digits and hyphens and is not in the denylist; after
\* "/plugin install " the token captured is the run of lowercase letters,
\* digits and hyphens.
C15_LowercaseTokens ==
    \A doc \in ExtractedDocs :
        /\ \A tok \in extract_plugin_names_from_markdown(doc) :
              LowercaseToken(tok) /\ tok \notin false_positives
        /\ \A l \in doc.lines :
              InstallPattern(l) \subseteq {LongestPrefix(l.text, Lowers \cup Digits \cup {"-"})}

IsPrefix(s, t) == Len(s) <= Len(t) /\ SubSeq(t, 1, Len(s)) = s
\* the entries tagged a precede the entries tagged b whenever a < b
TagsInOrder(list) ==
    \A i, j \in DOMAIN list :
        ( /\ list[i].tag \in PluginNames
          /\ list[j].tag \in PluginNames
          /\ StrLess(list[i].tag, list[j].tag) ) => i < j

\* C16: plugin directories are visited in lexicographic order and the lists
\* are only appended to: for plugin directories a < b every error and warning
\* tagged a comes before every one tagged b in its list, and within a run
\* every step keeps the entries already in the lists, in their places.
C16_OrderedAppendOnly ==
    /\ [](TagsInOrder(errors) /\ TagsInOrder(warnings))
    /\ [][pc' # "rerun" => (IsPrefix(errors, errors') /\ IsPrefix(warnings, warnings'))]_vars

\* run over bar and foo, each with an error and a warning of its own
C16_Witness ==
    /\ pc = "exited"
    /\ \E i, j \in DOMAIN errors : errors[i].tag = bar /\ errors[j].tag = foo /\ i < j
    /\ \E i, j \in DOMAIN warnings : warnings[i].tag = bar /\ warnings[j].tag = foo /\ i < j

====
